---- MODULE Spec2Model ----
(***************************************************************************)
(* Voice-phishing detector: the chunked Whisper transcription              *)
(* (webpage/practive_voice.py), the LangGraph analysis workflow            *)
(* (webpage/model/graph_model.py) and the judgment parsing / risk tiering  *)
(* of the detector page (voice_phishing_detector.py).                      *)
(*                                                                         *)
(* Times are kept as exact multiples of 1/sample_rate seconds ("ticks"):   *)
(* the code's  end_sample / sample_rate  seconds is the tick count         *)
(* end_sample, and t seconds is  t * sample_rate  ticks.                   *)
(* Texts are sequences of one-character strings.                           *)
(***************************************************************************)
EXTENDS Integers, Sequences, FiniteSets, TLC

VARIABLES
    proc,                 \* which entry point this run exercises
    \* ---- VoiceToTextConverter.transcribe_audio / _process_long_audio
    audio_len,            \* len(audio_data), in samples
    t_pc,                 \* position inside transcribe_audio
    i,                    \* loop index of _process_long_audio
    total_chunks,
    current_time_offset,  \* in ticks
    full_result,          \* [text, segments] being accumulated
    result,               \* what transcribe_audio returns
    calls,                \* history: <<start_sample, end_sample>> of every model.transcribe call
    chunk_results,        \* history: outcome of each call, in call order
    \* ---- VoicePhishingDetector.analyze_text
    node,                 \* the graph node to run next
    messages,             \* State["messages"]
    dummy_data,           \* State["dummy_data"]
    search_reply,         \* history: the assistant message llm_tool produced at search
    visited,              \* history: the nodes that ran, in order
    tool_batches,         \* history: number of times the tool node ran its calls
    answer_input,         \* history: the message list analyze_chain was invoked over
    w_status,             \* "idle" | "running" | "done" | "error"
    judgment,             \* what analyze_text returned: <<>> or <<content>>
    \* ---- analyze_audio of the detector page
    aa_pc,
    tmp_exists,           \* the NamedTemporaryFile(delete=False) is on disk
    phishing_result,
    risk_score,
    tier,                 \* the banner shown: "none" | "HIGH" | "MEDIUM" | "LOW"
    \* ---- main of practive_voice.py
    m_pc,
    success,              \* result["success"] of process_call_recording
    printed,              \* what main printed last: "none" | "output_file" | "error" | "traceback"
    exit_status           \* the exit status of the process

t_vars == <<audio_len, t_pc, i, total_chunks, current_time_offset, full_result,
            result, calls, chunk_results>>
w_vars == <<node, messages, dummy_data, search_reply, visited, tool_batches,
            answer_input, w_status, judgment>>
aa_vars == <<aa_pc, tmp_exists, phishing_result, risk_score, tier>>
m_vars == <<m_pc, success, printed, exit_status>>
vars == <<proc, t_vars, w_vars, aa_vars, m_vars>>

(***************************************************************************)
(* Bounds of the model.                                                    *)
(***************************************************************************)
MaxChunks == 3
MaxToolCalls == 2
MaxInt == 12

(***************************************************************************)
(* Python string helpers.                                                  *)
(***************************************************************************)
Whitespace == {" ", "\n"}

RECURSIVE LStrip(_)
LStrip(s) == IF s # <<>> /\ Head(s) \in Whitespace THEN LStrip(Tail(s)) ELSE s

RECURSIVE RStrip(_)
RStrip(s) ==
    IF s # <<>> /\ s[Len(s)] \in Whitespace THEN RStrip(SubSeq(s, 1, Len(s) - 1)) ELSE s

\* str.strip(): leading and trailing whitespace removed
PyStrip(s) == RStrip(LStrip(s))

(***************************************************************************)
(* _process_long_audio: constants and pure parts.                          *)
(***************************************************************************)
chunk_length == 30
sample_rate == 16000
chunk_samples == chunk_length * sample_rate

\* sample_rate * 0.5
MinChunkSamples == sample_rate \div 2

Min(a, b) == IF a < b THEN a ELSE b

\* len // chunk_samples + (1 if len % chunk_samples > 0 else 0)
TotalChunks(n) == n \div chunk_samples + (IF n % chunk_samples > 0 THEN 1 ELSE 0)

start_sample(k) == k * chunk_samples
end_sample(k, n) == Min((k + 1) * chunk_samples, n)

TooShortInclusive(n) == n <= MinChunkSamples
\* len(chunk_audio) < sample_rate * 0.5
TooShort(n) == n < MinChunkSamples

IsLongInclusive(n) == n >= sample_rate * chunk_length
\* len(audio_data) > 16000 * 30
IsLong(n) == n > sample_rate * chunk_length

AppendTextNoSeparator(acc, t) == IF PyStrip(t) # <<>> THEN acc \o t ELSE acc
\* if chunk_result["text"].strip(): full_result["text"] += chunk_result["text"] + " "
AppendText(acc, t) == IF PyStrip(t) # <<>> THEN acc \o t \o <<" ">> ELSE acc

AdjustSegmentEndOnly(seg, offset) == [seg EXCEPT !.end = @ + offset]
\* segment.copy() with start and end moved by the offset
AdjustSegment(seg, offset) ==
    [seg EXCEPT !.start = @ + offset, !.end = @ + offset]

AdjustSegments(segs, offset) ==
    [j \in 1..Len(segs) |-> AdjustSegment(segs[j], offset)]

(***************************************************************************)
(* Inputs of the transcription: buffer lengths around the window and the   *)
(* half-second boundaries, and what the speech recogniser may answer.      *)
(***************************************************************************)
Deltas == {1, MinChunkSamples - 1, MinChunkSamples, chunk_samples \div 2, chunk_samples}

AudioLengths == {k * chunk_samples + d : k \in 0..(MaxChunks - 1), d \in Deltas}

Letters == <<"a", "b", "c", "d", "e", "f">>

\* texts Whisper may return for the window starting at sample s
ChunkTexts(s) ==
    LET c == Letters[((s \div chunk_samples) % Len(Letters)) + 1]
    IN  {<<>>, <<" ">>, <<c>>, <<" ", c>>}

\* segment lists Whisper may return for a window of n samples starting at s:
\* local timestamps, non-decreasing, inside the window
ChunkSegments(s, n) ==
    LET h == n \div 2
    IN  {<<>>,
         <<[start |-> 0, end |-> h, text |-> s], [start |-> h, end |-> n, text |-> s]>>}

ChunkOutcomes(s, n) ==
    {[ok |-> TRUE, text |-> t, segments |-> g] :
        t \in ChunkTexts(s), g \in ChunkSegments(s, n)}

Failed == [ok |-> FALSE, text |-> <<>>, segments |-> <<>>]

EmptyResult == [text |-> <<>>, segments |-> <<>>]

(***************************************************************************)
(* VoiceToTextConverter.transcribe_audio and _process_long_audio.          *)
(***************************************************************************)
InTranscribe == proc = "transcribe_audio"

\* librosa.load raises: the except clause re-raises
load_fails ==
    /\ InTranscribe /\ t_pc = "start"
    /\ t_pc' = "raised"
    /\ UNCHANGED <<proc, audio_len, i, total_chunks, current_time_offset, full_result,
                   result, calls, chunk_results, w_vars, aa_vars, m_vars>>

\* the audio is loaded; pick the single-shot or the chunked path
transcribe_audio ==
    /\ InTranscribe /\ t_pc = "start"
    /\ IF IsLong(audio_len)
          THEN /\ t_pc' = "loop"
               /\ total_chunks' = TotalChunks(audio_len)
          ELSE /\ t_pc' = "single"
               /\ total_chunks' = total_chunks
    /\ i' = 0
    /\ current_time_offset' = 0
    /\ full_result' = EmptyResult
    /\ UNCHANGED <<proc, audio_len, result, calls, chunk_results, w_vars, aa_vars, m_vars>>

\* result = self.model.transcribe(audio_data, ...); return result
single_shot ==
    /\ InTranscribe /\ t_pc = "single"
    /\ \E r \in ChunkOutcomes(0, audio_len) :
          /\ result' = [text |-> r.text, segments |-> r.segments]
          /\ chunk_results' = Append(chunk_results, r)
    /\ calls' = Append(calls, <<0, audio_len>>)
    /\ t_pc' = "returned"
    /\ UNCHANGED <<proc, audio_len, i, total_chunks, current_time_offset, full_result,
                   w_vars, aa_vars, m_vars>>

\* self.model.transcribe raises on the whole buffer: the except clause re-raises
single_shot_fails ==
    /\ InTranscribe /\ t_pc = "single"
    /\ calls' = Append(calls, <<0, audio_len>>)
    /\ chunk_results' = Append(chunk_results, Failed)
    /\ t_pc' = "raised"
    /\ UNCHANGED <<proc, audio_len, i, total_chunks, current_time_offset, full_result,
                   result, w_vars, aa_vars, m_vars>>

InLoop == InTranscribe /\ t_pc = "loop" /\ i < total_chunks

chunk_len == end_sample(i, audio_len) - start_sample(i)

\* if len(chunk_audio) < sample_rate * 0.5: continue
skip_short_chunk ==
    /\ InLoop /\ TooShort(chunk_len)
    /\ i' = i + 1
    /\ UNCHANGED <<proc, audio_len, t_pc, total_chunks, current_time_offset, full_result,
                   result, calls, chunk_results, w_vars, aa_vars, m_vars>>

\* the try body of one iteration, then current_time_offset = end_sample / sample_rate
chunk_transcribed ==
    /\ InLoop /\ ~TooShort(chunk_len)
    /\ \E r \in ChunkOutcomes(start_sample(i), chunk_len) :
          /\ full_result' =
                [text |-> AppendText(full_result.text, r.text),
                 segments |-> full_result.segments
                                 \o AdjustSegments(r.segments, current_time_offset)]
          /\ chunk_results' = Append(chunk_results, r)
    /\ calls' = Append(calls, <<start_sample(i), end_sample(i, audio_len)>>)
    /\ current_time_offset' = end_sample(i, audio_len)
    /\ i' = i + 1
    /\ UNCHANGED <<proc, audio_len, t_pc, total_chunks, result, w_vars, aa_vars, m_vars>>

\* except Exception: print(...); continue  -- the assignment of line 141 is skipped
OffsetAfterFailure(offset, end) == offset

chunk_fails ==
    /\ InLoop /\ ~TooShort(chunk_len)
    /\ calls' = Append(calls, <<start_sample(i), end_sample(i, audio_len)>>)
    /\ chunk_results' = Append(chunk_results, Failed)
    /\ current_time_offset' =
          OffsetAfterFailure(current_time_offset, end_sample(i, audio_len))
    /\ i' = i + 1
    /\ UNCHANGED <<proc, audio_len, t_pc, total_chunks, full_result, result,
                   w_vars, aa_vars, m_vars>>

\* full_result["text"] = full_result["text"].strip(); return full_result
long_audio_done ==
    /\ InTranscribe /\ t_pc = "loop" /\ i = total_chunks
    /\ full_result' = [full_result EXCEPT !.text = PyStrip(@)]
    /\ result' = full_result'
    /\ t_pc' = "returned"
    /\ UNCHANGED <<proc, audio_len, i, total_chunks, current_time_offset, calls,
                   chunk_results, w_vars, aa_vars, m_vars>>

TranscribeNext ==
    \/ load_fails
    \/ transcribe_audio
    \/ single_shot
    \/ single_shot_fails
    \/ skip_short_chunk
    \/ chunk_transcribed
    \/ chunk_fails
    \/ long_audio_done

TranscribeInit ==
    /\ audio_len \in (IF InTranscribe THEN AudioLengths ELSE {0})
    /\ t_pc = (IF InTranscribe THEN "start" ELSE "idle")
    /\ i = 0
    /\ total_chunks = 0
    /\ current_time_offset = 0
    /\ full_result = EmptyResult
    /\ result = EmptyResult
    /\ calls = <<>>
    /\ chunk_results = <<>>

(***************************************************************************)
(* VoicePhishingDetector: the compiled graph  search -> [tools] -> answer. *)
(* A message is [role, tool_calls, content]; tool_calls is the number of   *)
(* tool-call requests it carries ("tool_calls" is a key of                 *)
(* additional_kwargs exactly when that number is positive).                *)
(***************************************************************************)
InWorkflow == proc = "analyze_text"

HumanMessage(c) == [role |-> "human", tool_calls |-> 0, content |-> c]
AIMessage(n, c) == [role |-> "ai", tool_calls |-> n, content |-> c]
ToolMessage(c) == [role |-> "tool", tool_calls |-> 0, content |-> c]

\* State: messages and dummy_data, both reduced by add_messages
StateKeys == {"messages", "dummy_data"}

\* add_messages: the update's messages are appended to the channel
add_messages(left, right) == left \o right

\* a node's returned dict is written key by key to the channels of State;
\* a key that names no channel of State is written nowhere
WriteChannel(channel, current, update) ==
    IF channel \in StateKeys /\ channel \in DOMAIN update
        THEN add_messages(current, update[channel])
        ELSE current

\* return {'context': [self.llm_tool.invoke(state['messages'])]}
search_node(reply) == [context |-> <<reply>>]

\* ToolNode: one tool message per tool call of the last message
tool_node(msgs, results) ==
    [messages |-> [j \in 1..msgs[Len(msgs)].tool_calls |-> ToolMessage(results[j])]]

AnalStep == <<"a", "n", "a", "l", " ", "s", "t", "e", "p">>

\* return {"messages": analyze_chain.invoke(...), "dummy_data": 'anal step'}
answer_node(answer) ==
    [messages |-> <<AIMessage(0, answer)>>, dummy_data |-> <<HumanMessage(AnalStep)>>]

custom_tools_condition_prebuilt(msgs) ==
    IF msgs[Len(msgs)].tool_calls > 0 THEN "tools" ELSE "END"
\* last_message = state['messages'][-1]; "tool_calls" in additional_kwargs ?
custom_tools_condition(msgs) ==
    IF msgs[Len(msgs)].tool_calls > 0 THEN "tools" ELSE "answer"

\* _build_graph: entry point search, conditional edges from search,
\* edge tools -> answer, finish point answer
EntryPoint == "search"

NodeUpdate(n, msgs, reply, results, answer) ==
    CASE n = "search" -> search_node(reply)
      [] n = "tools" -> tool_node(msgs, results)
      [] n = "answer" -> answer_node(answer)

NextNode(n, msgs) ==
    CASE n = "search" -> custom_tools_condition(msgs)
      [] n = "tools" -> "answer"
      [] n = "answer" -> "END"

Transcripts == {<<"h">>, <<"h", " ", "m">>}

SearchReplies == {AIMessage(n, c) : n \in 0..MaxToolCalls, c \in {<<>>, <<"q">>}}

\* a lookup result, or the error text ToolNode records for a failed lookup
ToolContents == {<<"r">>, <<"!">>}
ToolResults == [1..MaxToolCalls -> ToolContents]

Score == <<"s", "c", "o", "r", "e">>

AnswerContents == {Score \o <<":", " ", "8">>, <<"x">>}

\* one superstep of the compiled graph: run the node, write its update, follow the edge
graph_step ==
    /\ InWorkflow /\ w_status = "running"
    /\ \E reply \in SearchReplies, results \in ToolResults, answer \in AnswerContents :
          LET update == NodeUpdate(node, messages, reply, results, answer)
              written == WriteChannel("messages", messages, update)
              next == NextNode(node, written)
          IN  /\ messages' = written
              /\ dummy_data' = WriteChannel("dummy_data", dummy_data, update)
              /\ node' = next
              /\ w_status' = IF next = "END" THEN "done" ELSE "running"
              /\ search_reply' = IF node = "search" THEN <<reply>> ELSE search_reply
              \* return result["messages"][-1].content
              /\ judgment' = IF next = "END" THEN <<written[Len(written)].content>>
                                             ELSE judgment
    /\ visited' = Append(visited, node)
    /\ tool_batches' = tool_batches + (IF node = "tools" THEN 1 ELSE 0)
    /\ answer_input' = IF node = "answer" THEN messages ELSE answer_input
    /\ UNCHANGED <<proc, t_vars, aa_vars, m_vars>>

capability_fails_swallowed ==
    /\ InWorkflow /\ w_status = "running"
    /\ node \in {"search", "answer"}
    /\ w_status' = IF node = "search" THEN "running" ELSE "error"
    /\ node' = IF node = "search" THEN "answer" ELSE node
    /\ visited' = Append(visited, node)
    /\ UNCHANGED <<proc, messages, dummy_data, search_reply, tool_batches,
                   answer_input, judgment, t_vars, aa_vars, m_vars>>
\* llm_tool.invoke or analyze_chain.invoke raises: vp_search.invoke raises
capability_fails ==
    /\ InWorkflow /\ w_status = "running"
    /\ node \in {"search", "answer"}
    /\ w_status' = "error"
    /\ visited' = Append(visited, node)
    /\ UNCHANGED <<proc, node, messages, dummy_data, search_reply, tool_batches,
                   answer_input, judgment, t_vars, aa_vars, m_vars>>

WorkflowNext ==
    \/ graph_step
    \/ capability_fails

\* vp_search.invoke({'messages': text}): the text becomes one human message
WorkflowInit ==
    /\ node = EntryPoint
    /\ messages \in (IF InWorkflow THEN {<<HumanMessage(t)>> : t \in Transcripts}
                                   ELSE {<<>>})
    /\ dummy_data = <<>>
    /\ search_reply = <<>>
    /\ visited = <<>>
    /\ tool_batches = 0
    /\ answer_input = <<>>
    /\ w_status = (IF InWorkflow THEN "running" ELSE "idle")
    /\ judgment = <<>>

(***************************************************************************)
(* Judgment parsing of analyze_audio:                                      *)
(*   risk_score = int(phishing_result.splitlines()[0].split(":")[1])       *)
(***************************************************************************)
Digits == <<"0", "1", "2", "3", "4", "5", "6", "7", "8", "9">>
DigitSet == {Digits[d] : d \in 1..10}
DigitVal(c) == (CHOOSE d \in 1..10 : Digits[d] = c) - 1

\* index of the first occurrence of c in s, or 0
RECURSIVE IndexOf(_, _)
IndexOf(s, c) ==
    IF s = <<>> THEN 0
    ELSE IF Head(s) = c THEN 1
    ELSE LET r == IndexOf(Tail(s), c) IN IF r = 0 THEN 0 ELSE r + 1

\* str.split(sep) for a one-character separator: every piece, empty ones included
RECURSIVE Split(_, _)
Split(s, sep) ==
    LET k == IndexOf(s, sep)
    IN  IF k = 0 THEN <<s>>
        ELSE <<SubSeq(s, 1, k - 1)>> \o Split(SubSeq(s, k + 1, Len(s)), sep)

\* str.splitlines(): split at line breaks, no empty last line, [] for ""
SplitLines(s) ==
    LET pieces == Split(s, "\n")
    IN  IF pieces[Len(pieces)] = <<>> THEN SubSeq(pieces, 1, Len(pieces) - 1) ELSE pieces

RECURSIVE DigitsValue(_)
DigitsValue(s) ==
    IF s = <<>> THEN 0 ELSE 10 * DigitsValue(SubSeq(s, 1, Len(s) - 1)) + DigitVal(s[Len(s)])

ParseError == [ok |-> FALSE, val |-> 0]
Parsed(n) == [ok |-> TRUE, val |-> n]

\* int(str): surrounding whitespace ignored, optional sign, decimal digits; else ValueError
PyInt(s) ==
    LET t == PyStrip(s)
        signed == t # <<>> /\ Head(t) \in {"+", "-"}
        body == IF signed THEN Tail(t) ELSE t
    IN  IF body = <<>> \/ \E j \in 1..Len(body) : body[j] \notin DigitSet
            THEN ParseError
            ELSE Parsed(IF signed /\ Head(t) = "-" THEN 0 - DigitsValue(body)
                                                   ELSE DigitsValue(body))

ParseScoreWholeText(text) ==
    LET parts == Split(text, ":")
    IN  IF Len(parts) < 2 THEN ParseError ELSE PyInt(parts[2])
\* splitlines()[0] or split(":")[1] out of range is an IndexError
ParseScore(text) ==
    LET lines == SplitLines(text)
    IN  IF lines = <<>> THEN ParseError
        ELSE LET parts == Split(lines[1], ":")
             IN  IF Len(parts) < 2 THEN ParseError ELSE PyInt(parts[2])

RiskTierExclusive(score) ==
    IF score > 7 THEN "HIGH" ELSE IF score > 4 THEN "MEDIUM" ELSE "LOW"
\* if risk_score >= 7: st.error  elif risk_score >= 4: st.warning  else: st.success
RiskTier(score) ==
    IF score >= 7 THEN "HIGH" ELSE IF score >= 4 THEN "MEDIUM" ELSE "LOW"

\* str(n) of an integer
RECURSIVE NatToStr(_)
NatToStr(n) ==
    IF n < 10 THEN <<Digits[n + 1]>> ELSE NatToStr(n \div 10) \o <<Digits[(n % 10) + 1]>>

IntToStr(n) == IF n < 0 THEN <<"-">> \o NatToStr(0 - n) ELSE NatToStr(n)

(***************************************************************************)
(* What the scoring model may answer: label, separator, value, rest.       *)
(***************************************************************************)
Labels == {Score, <<"r", "i", "s", "k">>, <<>>}
Separators == {<<":">>, <<>>}
ValueTexts ==
    {<<" ">> \o IntToStr(n) : n \in (0 - 3)..MaxInt}
        \cup {<<>>, <<"8">>, <<" ", "x">>, <<" ", "8", ".", "5">>, <<" ", "8", " ">>}
Rests == {<<>>, <<"\n">>, <<"\n", "x">>, <<"\n", ":", "9">>}

RawJudgments ==
    {<<>>} \cup {l \o p \o v \o r : l \in Labels, p \in Separators, v \in ValueTexts, r \in Rests}

(***************************************************************************)
(* analyze_audio of the detector page.                                     *)
(***************************************************************************)
InAnalyzeAudio == proc = "analyze_audio"

\* with tempfile.NamedTemporaryFile(delete=False, ...) as tmp_file: write
save_temp_file ==
    /\ InAnalyzeAudio /\ aa_pc = "start"
    /\ tmp_exists' = TRUE
    /\ aa_pc' = "transcribe"
    /\ UNCHANGED <<proc, phishing_result, risk_score, tier, t_vars, w_vars, m_vars>>

\* converter.transcribe_audio(temp_file_path, ...) returns
transcribe_returns ==
    /\ InAnalyzeAudio /\ aa_pc = "transcribe"
    /\ aa_pc' = "analyze"
    /\ UNCHANGED <<proc, tmp_exists, phishing_result, risk_score, tier, t_vars, w_vars, m_vars>>

\* VoiceToTextConverter(...) or transcribe_audio raises: the except branch runs
transcribe_raises ==
    /\ InAnalyzeAudio /\ aa_pc = "transcribe"
    /\ aa_pc' = "error"
    /\ UNCHANGED <<proc, tmp_exists, phishing_result, risk_score, tier, t_vars, w_vars, m_vars>>

\* phishing_result = analyze_voice_phishing(transcribed_text)
analyze_returns ==
    /\ InAnalyzeAudio /\ aa_pc = "analyze"
    /\ phishing_result' \in RawJudgments
    /\ aa_pc' = "display"
    /\ UNCHANGED <<proc, tmp_exists, risk_score, tier, t_vars, w_vars, m_vars>>

analyze_raises ==
    /\ InAnalyzeAudio /\ aa_pc = "analyze"
    /\ aa_pc' = "error"
    /\ UNCHANGED <<proc, tmp_exists, phishing_result, risk_score, tier, t_vars, w_vars, m_vars>>

\* parse the score, show the banner and the result, os.unlink(temp_file_path);
\* an exception of the parse skips all of it and the except branch runs
show_result ==
    /\ InAnalyzeAudio /\ aa_pc = "display"
    /\ LET p == ParseScore(phishing_result)
       IN  IF p.ok
              THEN /\ risk_score' = p.val
                   /\ tier' = RiskTier(p.val)
                   /\ tmp_exists' = FALSE
                   /\ aa_pc' = "done"
              ELSE /\ aa_pc' = "error"
                   /\ UNCHANGED <<risk_score, tier, tmp_exists>>
    /\ UNCHANGED <<proc, phishing_result, t_vars, w_vars, m_vars>>

AnalyzeAudioNext ==
    \/ save_temp_file
    \/ transcribe_returns
    \/ transcribe_raises
    \/ analyze_returns
    \/ analyze_raises
    \/ show_result

AnalyzeAudioInit ==
    /\ aa_pc = (IF InAnalyzeAudio THEN "start" ELSE "idle")
    /\ tmp_exists = FALSE
    /\ phishing_result = <<>>
    /\ risk_score = 0
    /\ tier = "none"

(***************************************************************************)
(* main of practive_voice.py: the command-line transcription.              *)
(***************************************************************************)
InMain == proc = "main"

\* converter = VoiceToTextConverter(model_size=args.model)
converter_loaded ==
    /\ InMain /\ m_pc = "start"
    /\ m_pc' = "process"
    /\ UNCHANGED <<proc, success, printed, exit_status, t_vars, w_vars, aa_vars>>

\* whisper.load_model raises: nothing in main catches it, the interpreter prints
\* the traceback and exits with status 1
converter_raises ==
    /\ InMain /\ m_pc = "start"
    /\ printed' = "traceback"
    /\ exit_status' = 1
    /\ m_pc' = "exited"
    /\ UNCHANGED <<proc, success, t_vars, w_vars, aa_vars>>

\* process_call_recording: transcribe_audio and save_transcript return
process_call_recording ==
    /\ InMain /\ m_pc = "process"
    /\ success' = TRUE
    /\ m_pc' = "report"
    /\ UNCHANGED <<proc, printed, exit_status, t_vars, w_vars, aa_vars>>

\* process_call_recording: transcribe_audio or save_transcript raises; the except
\* clause returns {"success": False, "error": ...}
process_call_recording_fails ==
    /\ InMain /\ m_pc = "process"
    /\ success' = FALSE
    /\ m_pc' = "report"
    /\ UNCHANGED <<proc, printed, exit_status, t_vars, w_vars, aa_vars>>

\* main returns after its print on either branch and the script ends
ExitStatus(ok) == 0

\* if result["success"]: print the output file  else: print the error
report ==
    /\ InMain /\ m_pc = "report"
    /\ printed' = IF success THEN "output_file" ELSE "error"
    /\ exit_status' = ExitStatus(success)
    /\ m_pc' = "exited"
    /\ UNCHANGED <<proc, success, t_vars, w_vars, aa_vars>>

MainNext ==
    \/ converter_loaded
    \/ converter_raises
    \/ process_call_recording
    \/ process_call_recording_fails
    \/ report

MainInit ==
    /\ m_pc = (IF InMain THEN "start" ELSE "idle")
    /\ success = FALSE
    /\ printed = "none"
    /\ exit_status = 0

(***************************************************************************)
(* The entry points.                                                       *)
(***************************************************************************)
Procs == {"transcribe_audio", "analyze_text", "analyze_audio", "main"}

Init ==
    /\ proc \in Procs
    /\ TranscribeInit
    /\ WorkflowInit
    /\ AnalyzeAudioInit
    /\ MainInit

Next ==
    \/ TranscribeNext
    \/ WorkflowNext
    \/ AnalyzeAudioNext
    \/ MainNext

Spec == Init /\ [][Next]_vars

\* vp_search.invoke runs the next node of the graph until none is left
FairSpec == Spec /\ WF_vars(WorkflowNext)

(***************************************************************************)
(* Properties of the chunked transcription.                                *)
(***************************************************************************)
Seconds(t) == t * sample_rate

ChunkedPath == audio_len > Seconds(30)
Returned == InTranscribe /\ t_pc = "returned"

\* the window a call was made on: the number of 30-second windows before it
WindowOf(call) == call[1] \div Seconds(30)

\* the segments of the successful calls 1..j, each moved to its window's nominal start
RECURSIVE NominalSegments(_)
NominalSegments(j) ==
    IF j = 0 THEN <<>>
    ELSE NominalSegments(j - 1)
            \o (IF chunk_results[j].ok
                   THEN [m \in 1..Len(chunk_results[j].segments) |->
                            [chunk_results[j].segments[m] EXCEPT
                                !.start = @ + Seconds(30) * WindowOf(calls[j]),
                                !.end = @ + Seconds(30) * WindowOf(calls[j])]]
                   ELSE <<>>)

\* C1: on the chunked path the returned segments are those of the successfully
\* transcribed windows, each shifted by its window's nominal start (30 s times the
\* number of windows before it), whether or not an earlier window failed.
C1_NominalOffsets ==
    (Returned /\ ChunkedPath) => result.segments = NominalSegments(Len(calls))

\* texts of the successful calls 1..j that satisfy keep, each followed by one space
RECURSIVE SpacedTexts(_, _)
SpacedTexts(j, strict) ==
    IF j = 0 THEN <<>>
    ELSE SpacedTexts(j - 1, strict)
            \o (IF /\ chunk_results[j].ok
                   /\ (IF strict THEN PyStrip(chunk_results[j].text) # <<>>
                                 ELSE chunk_results[j].text # <<>>)
                   THEN chunk_results[j].text \o <<" ">>
                   ELSE <<>>)

\* the windows of the buffer that are at least half a second long, in order
AttemptedWindows ==
    LET n == (audio_len + Seconds(30) - 1) \div Seconds(30)
        w(k) == <<Seconds(30) * (k - 1), Min(Seconds(30) * k, audio_len)>>
        long == {k \in 1..n : 2 * (w(k)[2] - w(k)[1]) >= Seconds(1)}
    IN  [k \in 1..Cardinality(long) |-> w(k)]

NoAbort ==
    /\ (InTranscribe /\ ChunkedPath /\ calls # <<>>) => t_pc # "raised"
    /\ (Returned /\ ChunkedPath) =>
          /\ calls = AttemptedWindows
          /\ \A m \in 1..Len(result.segments) :
                \E j \in 1..Len(calls) :
                    chunk_results[j].ok /\ calls[j][1] = result.segments[m].text

\* C2 as stated: a failed window never aborts the run, and the returned text is the
\* non-empty texts of the successful windows joined by a single space with trailing
\* whitespace trimmed.
C2_TextJoinedTrailingTrim ==
    /\ NoAbort
    /\ (Returned /\ ChunkedPath) =>
          result.text = RStrip(SpacedTexts(Len(calls), FALSE))

\* C2 amended: a failed window never aborts the run and contributes nothing, every
\* window of at least half a second is attempted in order, and the returned text is
\* the texts of the successful windows that are not whitespace-only, each followed
\* by a single space, with leading and trailing whitespace trimmed.
C2_TextJoinedStripped ==
    /\ NoAbort
    /\ (Returned /\ ChunkedPath) =>
          result.text = RStrip(LStrip(SpacedTexts(Len(calls), TRUE)))

C2_Witness ==
    /\ Returned /\ ChunkedPath /\ Len(calls) = 3
    /\ chunk_results[1].ok /\ ~chunk_results[2].ok /\ chunk_results[3].ok
    /\ result.text = <<"a", " ", " ", "c">>

\* C3: on the chunked path a transcript is returned only when at least one window
\* was transcribed successfully; if every attempted window fails the run raises.
C3_AllFailedRaises ==
    (Returned /\ ChunkedPath) => \E j \in 1..Len(calls) : chunk_results[j].ok

C10_CallCount ==
    (Returned /\ ChunkedPath) =>
        LET n == (audio_len + Seconds(30) - 1) \div Seconds(30)
            tail == audio_len - Seconds(30) * (n - 1)
            dropped == IF 2 * tail < Seconds(1) THEN 1 ELSE 0
        IN  /\ Len(calls) = n - dropped
            /\ \A j \in 1..Len(calls) :
                  /\ calls[j][1] = Seconds(30) * (j - 1)
                  /\ calls[j][2] = Min(Seconds(30) * j, audio_len)
                  /\ j < n => calls[j][2] - calls[j][1] = Seconds(30)

C10_Witness ==
    /\ Returned /\ audio_len = Seconds(60) + MinChunkSamples - 1
    /\ Len(calls) = 2

\* C11: the stitched segments are non-decreasing in start time and each keeps
\* start <= end, whenever every window's own segments are so ordered and lie inside
\* the window, also when some windows fail or are dropped.
C11_StitchedOrdered ==
    (Returned /\ ChunkedPath) =>
        \A m \in 1..Len(result.segments) :
            /\ result.segments[m].start <= result.segments[m].end
            /\ m < Len(result.segments) =>
                  result.segments[m].start <= result.segments[m + 1].start

C11_Witness ==
    /\ Returned /\ ChunkedPath /\ Len(calls) = 3
    /\ chunk_results[1].ok /\ ~chunk_results[2].ok /\ chunk_results[3].ok
    /\ Len(result.segments) = 4
    /\ result.segments[2].start < result.segments[3].start

(***************************************************************************)
(* Properties of the analysis workflow.                                    *)
(***************************************************************************)
Count(seq, x) == Cardinality({j \in 1..Len(seq) : seq[j] = x})

\* C4: the run enters TOOLS exactly when the assistant message produced at SEARCH
\* carries a tool-call request: then it runs search, tools, answer with one batch of
\* search calls, and otherwise search, answer with none.
C4_ToolsIffToolCall ==
    (InWorkflow /\ w_status = "done") =>
        IF search_reply[1].tool_calls > 0
            THEN visited = <<"search", "tools", "answer">> /\ tool_batches = 1
            ELSE visited = <<"search", "answer">> /\ tool_batches = 0

HaltedAtAnswer ==
    /\ w_status = "done"
    /\ node = "END"
    /\ visited # <<>>
    /\ visited[Len(visited)] = "answer"

WorkflowShape ==
    InWorkflow =>
        /\ \A j \in 1..Len(visited) : visited[j] \in {"search", "tools", "answer"}
        /\ visited # <<>> => visited[1] = "search"
        /\ visited = <<>> => node = "search"
        /\ Count(visited, "search") <= 1
        /\ Count(visited, "tools") <= 1
        /\ Count(visited, "answer") <= 1
        /\ \A j, k \in 1..Len(visited) :
              (visited[j] = "answer" /\ j < k) => visited[k] # "tools"
        /\ tool_batches <= 1
        /\ w_status = "done" => HaltedAtAnswer
        /\ w_status = "error" => visited[Len(visited)] \in {"search", "answer"}

\* C5: a run starts in SEARCH, visits only SEARCH, TOOLS and ANSWER, SEARCH once,
\* TOOLS at most once and never after ANSWER; unless a capability call raises it
\* reaches ANSWER, and having halted there it takes no further step.
C5_SinglePassTerminates ==
    /\ []WorkflowShape
    /\ [][w_status = "done" => UNCHANGED w_vars]_vars
    /\ InWorkflow ~> (w_status = "error" \/ HaltedAtAnswer)

C5_Witness ==
    /\ InWorkflow /\ HaltedAtAnswer
    /\ visited = <<"search", "answer">>
    /\ search_reply[1].tool_calls = 0

(***************************************************************************)
(* Properties of the judgment parsing and the risk tier.                   *)
(***************************************************************************)
FirstLine(text) ==
    LET k == IndexOf(text, "\n") IN IF k = 0 THEN text ELSE SubSeq(text, 1, k - 1)

\* the first line is  score:<integer in 0..10>, blanks around the integer allowed
WellFormed(text) ==
    LET line == FirstLine(text)
        head == Score \o <<":">>
    IN  /\ Len(line) > Len(head)
        /\ SubSeq(line, 1, Len(head)) = head
        /\ PyStrip(SubSeq(line, Len(head) + 1, Len(line))) \in {IntToStr(n) : n \in 0..10}

\* C6: a judgment whose first line is not  score: <integer in 0..10>  ends in the
\* error branch: no score is taken from it and no risk tier is shown.
C6_StrictParse ==
    (InAnalyzeAudio /\ aa_pc \in {"done", "error"} /\ ~WellFormed(phishing_result)) =>
        (aa_pc = "error" /\ tier = "none")

HasPrefix(text, prefix) ==
    Len(text) >= Len(prefix) /\ SubSeq(text, 1, Len(prefix)) = prefix

ScoreLine(n) == Score \o <<":", " ">> \o IntToStr(n) \o <<"\n">>

\* C7: for every s in 0..10 the text "score: " + s + "\n" + anything parses to s.
C7_RoundTrip ==
    \A n \in 0..10 :
        (InAnalyzeAudio /\ aa_pc \in {"done", "error"}
            /\ HasPrefix(phishing_result, ScoreLine(n)))
        => (aa_pc = "done" /\ risk_score = n)

C7_Witness ==
    /\ InAnalyzeAudio /\ aa_pc = "done"
    /\ phishing_result = ScoreLine(10) \o <<"x">>
    /\ risk_score = 10

\* C8: for a score in 0..10 the tier shown is HIGH from 7, MEDIUM from 4 to 6 and
\* LOW up to 3, and it is one of the three.
C8_TierBands ==
    (InAnalyzeAudio /\ aa_pc = "done" /\ risk_score \in 0..10) =>
        /\ tier \in {"HIGH", "MEDIUM", "LOW"}
        /\ tier = "HIGH" <=> risk_score \in 7..10
        /\ tier = "MEDIUM" <=> risk_score \in 4..6
        /\ tier = "LOW" <=> risk_score \in 0..3

C8_Witness ==
    InAnalyzeAudio /\ aa_pc = "done" /\ risk_score = 7 /\ tier = "HIGH"

(***************************************************************************)
(* Properties of failures and clean-up.                                    *)
(***************************************************************************)
SearchFailed ==
    InWorkflow /\ w_status = "error" /\ visited = <<"search">>

\* C12: when the capability call of SEARCH raises, the analysis ends in an error:
\* neither TOOLS nor ANSWER runs afterwards, the scoring capability is not invoked
\* and no judgment text is returned.
C12_SearchFailureIsFatal ==
    /\ (InWorkflow /\ search_reply = <<>> /\ visited # <<>>) =>
          /\ SearchFailed
          /\ answer_input = <<>>
          /\ tool_batches = 0
          /\ judgment = <<>>
          /\ \A j \in 1..Len(messages) : messages[j].role = "human"
          /\ ~ENABLED WorkflowNext

C12_Witness ==
    SearchFailed /\ judgment = <<>> /\ node = "search"

\* C13: when process_call_recording reports success = False, main prints an error
\* and the process ends with a non-zero exit status; only a successful run prints
\* the output path and exits with status zero.
C13_ExitStatus ==
    (InMain /\ m_pc = "exited" /\ printed # "traceback") =>
        IF success THEN printed = "output_file" /\ exit_status = 0
                   ELSE printed = "error" /\ exit_status # 0

\* one tool message per tool call requested at SEARCH, if the tool node ran
ExpectedToolMessages ==
    {t \in UNION {[1..n -> {ToolMessage(c) : c \in ToolContents}] : n \in 0..MaxToolCalls} :
        Len(t) = (IF "tools" \in {visited[j] : j \in 1..Len(visited)}
                     THEN search_reply[1].tool_calls ELSE 0)}

\* C14: at ANSWER the scoring capability is invoked over the whole conversation:
\* the human message, the assistant message produced at SEARCH, and one tool
\* message per requested tool call if TOOLS ran.
C14_AnswerSeesConversation ==
    (InWorkflow /\ answer_input # <<>>) =>
        /\ Len(answer_input) >= 2
        /\ answer_input[1].role = "human"
        /\ answer_input[2] = search_reply[1]
        /\ SubSeq(answer_input, 3, Len(answer_input)) \in ExpectedToolMessages

\* C15: the temporary file of analyze_audio is gone when the request has finished,
\* on the success path and on the error path alike.
C15_TempFileRemoved ==
    (InAnalyzeAudio /\ aa_pc \in {"done", "error"}) => ~tmp_exists

====
